---- MODULE Spec2Model ----
(***************************************************************************)
(* Telegram notification relay: the webhook handler (src/api/webhook.js)   *)
(* and the notification handler with reply permits (src/unnamed/part_000)  *)
(* over the shared Redis store.  Every `await redis.*` of a handler is one *)
(* atomic step; handlers of different requests interleave between steps.   *)
(* A string of the program is a sequence of tokens (words, separators);    *)
(* ids (chat, account, link id) are atomic.                                *)
(***************************************************************************)
EXTENDS Integers, Sequences, FiniteSets, TLC

\* ------------------------------------------------------------------ bounds
MaxReq == 2         \* handler instances in flight at once
MaxNotify == 2      \* notification requests the game server makes
MaxPending == 2     \* entries of a pending list after which no reply text arrives
MaxClock == 1       \* long clock steps the model follows

\* ------------------------------------------------------- program constants
REPLY_WINDOW == 300
MESSAGE_TTL == 86400
TickSeconds == REPLY_WINDOW  \* seconds that pass in one long clock step

\* ------------------------------------------------------------------ values
Nil == "nil"
Chats == {"c1", "c2"}
Users == {"p42"}
Servers == {"eu1"}
LinkIds == {"ABC123", "XYZ789"}
Req == 1..MaxReq

\* A stored token value: the JSON text of {userId, serverId}, or a bare id.
TokenObj(u, s) == [form |-> "json", userId |-> u, serverId |-> s]
TokenBare(u) == [form |-> "bare", userId |-> u, serverId |-> Nil]
NoToken == [form |-> Nil, userId |-> Nil, serverId |-> Nil]
TokenValues == {TokenObj("p42", "eu1"), TokenObj("p42", Nil), TokenBare("p42")}
\* Account ids made of digits only: as a token's bare value they are JSON text.
NumericIds == {"777"}
\* The ids <u> of the keys telegram_user:<u> the handlers address; the template
\* literal renders an undefined userId as "undefined".
UserKeys == Users \cup NumericIds \cup {"undefined"}

ParseUserDataNoServer(s) == [userId |-> s.userId, serverId |-> Nil]
\* JSON.parse(userDataString) with the catch fallback { userId: userDataString },
\* then the destructuring { userId, serverId }: an absent field is undefined (Nil).
\* A bare value of digits parses as a JSON number, which has neither field; any
\* other bare value makes JSON.parse throw and takes the fallback.
ParseUserData(s) ==
    IF s.form = "json" THEN [userId |-> s.userId, serverId |-> s.serverId]
    ELSE IF s.userId \in NumericIds THEN [userId |-> Nil, serverId |-> Nil]
    ELSE [userId |-> s.userId, serverId |-> Nil]

\* A reply permit / active reply session value (JSON objects in the store).
NoPermit == [target |-> <<>>, type |-> Nil, ttl |-> 0]
NoSession == [target |-> <<>>, type |-> Nil, originalMsgId |-> 0, ttl |-> 0]

\* Date.now() at clock reading t. Epoch milliseconds lie far above every Telegram
\* message id, so a context id never equals a message id.
ContextIdAt(t) == MaxNotify + 1 + t

CtxIds == {ContextIdAt(t) : t \in 0..(MaxClock + MaxNotify)}
MsgIds == 1..MaxNotify
\* The keys reply_permit:<chatId>:<id> the handlers address.
PermitKeys == Chats \X (CtxIds \cup MsgIds)

\* --------------------------------------------------------- inbound messages
\* msg.text as tokens: the command word, a separating space, the argument.
MessageTexts ==
    { <<"/start">>, <<"/start", " ", "ABC123">>,
      <<"/link", " ", "ABC123">>, <<"/link", " ", "XYZ789">>, <<"/link">>,
      <<"/disconnect">>, <<"/status">>,
      <<"/reply", " ", "hey">>, <<"/reply">>,
      <<"/guild", " ", "hey">>, <<"/guild">>,
      <<"/help">>, <<"hello back">>, <<>> }

\* ------------------------------------------------------ notification texts
\* req.body.text as tokens; "NL" is a line feed.
TextPM == <<"**", "New Private Message", "**", "NL", "From: ", "Bob", "NL", "hi">>
TextGuild == <<"**", "New Guild Message", "**", "NL", "From: ", "Al", "NL", "yo">>
TextGuildPlain == <<"Guild Message", " ", "raid at nine">>
TextPMPlain == <<"Private Message", " ", "waiting">>
TextBattle == <<"Battle won">>
NotifyTexts == {TextPM, TextGuild, TextBattle}

\* A token holds the needle as a substring.
TokenHas(tok, needle) ==
    \/ tok = needle
    \/ needle = "Private Message" /\ tok = "New Private Message"
    \/ needle = "Guild Message" /\ tok = "New Guild Message"
\* text.includes(needle)
Includes(text, needle) == \E i \in 1..Len(text) : TokenHas(text[i], needle)

\* The end of the lazy group (.+?) that starts at token i: the first later
\* token that is a line feed, or the end of the text ((\n|$), no m flag).
LineEnd(text, i) ==
    IF \E j \in i..Len(text) : text[j] = "NL"
    THEN CHOOSE j \in i..Len(text) :
            text[j] = "NL" /\ \A k \in i..(j - 1) : text[k] # "NL"
    ELSE Len(text) + 1
\* text.match(/From: (.+?)(\n|$)/): group 1 of the leftmost match, <<>> for null
simpleFromMatch(text) ==
    LET starts == {i \in 1..Len(text) : text[i] = "From: " /\ LineEnd(text, i + 1) > i + 1}
    IN IF starts = {} THEN <<>>
       ELSE LET i == CHOOSE x \in starts : \A y \in starts : x <= y
            IN SubSeq(text, i + 1, LineEnd(text, i + 1) - 1)
\* text.match(/New <Kind> Message\*\*\\nFrom: (.+?)\\n/): the pattern wants the
\* two characters backslash and n ("\\n") after the header and after the name.
headerMatch(text, header) ==
    LET ends(i) == {j \in (i + 5)..Len(text) :
                      text[j] = "\\n" /\ \A k \in (i + 4)..(j - 1) : text[k] # "NL"}
        starts == {i \in 1..Len(text) :
                      /\ i + 5 <= Len(text)
                      /\ text[i] = header /\ text[i + 1] = "**" /\ text[i + 2] = "\\n"
                      /\ text[i + 3] = "From: " /\ ends(i) # {}}
    IN IF starts = {} THEN <<>>
       ELSE LET i == CHOOSE x \in starts : \A y \in starts : x <= y
                j == CHOOSE x \in ends(i) : \A y \in ends(i) : x <= y
            IN SubSeq(text, i + 4, j - 1)
pmMatch(text) == headerMatch(text, "New Private Message")
guildMatch(text) == headerMatch(text, "New Guild Message")

\* The classification of a notification: its kind and the sender it names.
Classify(text) ==
    IF Includes(text, "Private Message") /\ (pmMatch(text) # <<>> \/ simpleFromMatch(text) # <<>>)
    THEN [type |-> "PM",
          sender |-> IF pmMatch(text) # <<>> THEN pmMatch(text) ELSE simpleFromMatch(text)]
    ELSE IF Includes(text, "Guild Message")
    THEN [type |-> "GUILD",
          sender |-> IF guildMatch(text) # <<>> THEN guildMatch(text)
                     ELSE IF simpleFromMatch(text) # <<>> THEN simpleFromMatch(text)
                     ELSE <<"Guild">>]
    ELSE [type |-> Nil, sender |-> <<>>]

CallbackActions == {"help", "status", "disconnect", "noop"}

\* text.startsWith(cmd)
StartsWith(text, cmd) == Len(text) > 0 /\ text[1] = cmd
\* text.startsWith('/')
IsCommand(text) == Len(text) > 0 /\ text[1] \in
    {"/start", "/link", "/disconnect", "/status", "/reply", "/guild", "/help"}
\* text.match(/\/cmd (.+)/): the command word, a space and at least one character
HasArg(text) == Len(text) >= 3 /\ text[2] = " "
\* match[1].trim()
ArgOf(text) == SubSeq(text, 3, Len(text))

VARIABLES
    telegram_token,     \* telegram_token:<linkId>   -> stored token value
    telegram_chat,      \* telegram_chat:<chatId>    -> account id
    telegram_user,      \* telegram_user:<userId>    -> chat id
    telegram_metadata,  \* telegram_metadata:<userId> field server
    reply_permit,       \* reply_permit:<chatId>:<contextId> -> {target, type}, EX
    active_reply,       \* active_reply:<chatId> -> {target, type, originalMsgId}, EX
    last_pm_sender,     \* last_pm_sender:<chatId>, EX
    last_guild_sender,  \* last_guild_sender:<chatId>, EX
    telegram_pending,   \* telegram_pending:<userId> list
    pending_ttl,        \* its expiry, 0 when none is set
    now,                \* the latest reading of the millisecond clock
    nextMsgId,          \* message id Telegram gives the next notification
    buttons,            \* reply buttons delivered to chats, each with the kind
                        \* and sender its notification shows
    notified,           \* notification requests received so far
    elapsed,            \* long clock steps taken so far
    lanes,              \* handler instances the platform runs at once
    req                 \* the handler instances

store == <<telegram_token, telegram_chat, telegram_user, telegram_metadata,
           reply_permit, active_reply, last_pm_sender, last_guild_sender,
           telegram_pending, pending_ttl>>
links == <<telegram_token, telegram_chat, telegram_user, telegram_metadata>>
replies == <<reply_permit, active_reply, last_pm_sender, last_guild_sender>>
queue == <<telegram_pending, pending_ttl>>
env == <<now, nextMsgId, buttons, notified, elapsed, lanes>>
vars == <<telegram_token, telegram_chat, telegram_user, telegram_metadata,
          reply_permit, active_reply, last_pm_sender, last_guild_sender,
          telegram_pending, pending_ttl, now, nextMsgId, buttons, notified, elapsed,
          lanes, req>>

\* ------------------------------------------------------- handler instances
Idle ==
    [pc |-> "idle", kind |-> Nil, chat |-> Nil, text |-> <<>>, linkId |-> Nil,
     ctx |-> 0, msgId |-> 0, userId |-> Nil, serverId |-> Nil, to |-> <<>>,
     sub |-> Nil, content |-> <<>>, permit |-> NoPermit, session |-> NoSession, ret |-> Nil,
     ack |-> FALSE, edited |-> 0, out |-> <<>>, status |-> 0]

\* Telegram.sendMessage(chatId, <template>(arg))
Msg(c, t, a) == [chat |-> c, text |-> t, arg |-> a]
Sent(q, t, a) == [q EXCEPT !.out = Append(@, Msg(q.chat, t, a))]
At(q, p) == [q EXCEPT !.pc = p]
\* The handler has finished its work; res.status(200).send('OK') follows.
Finished(q) == [q EXCEPT !.pc = "respond", !.status = 200]
Running(r) == req[r].pc # "idle"
\* A new event is taken by the first free handler instance.
Free(r) ==
    /\ r <= lanes
    /\ req[r].pc = "idle"
    /\ \A q \in 1..(r - 1) : req[q].pc # "idle"

\* The store when the handlers are loaded: nothing linked yet and both tokens
\* issued, or chat c1 already linked to p42 by token ABC123 (which is used up).
InitLinks(bare) ==
    \E linked \in BOOLEAN, x \in bare :
        /\ telegram_token = [l \in LinkIds |->
                              IF l = "XYZ789" THEN x
                              ELSE IF linked THEN NoToken ELSE TokenObj("p42", "eu1")]
        /\ telegram_chat = [c \in Chats |-> IF linked /\ c = "c1" THEN "p42" ELSE Nil]
        /\ telegram_user = [u \in UserKeys |-> IF linked /\ u = "p42" THEN "c1" ELSE Nil]
        /\ telegram_metadata = [u \in Users |-> IF linked THEN "eu1" ELSE Nil]
\* Everything but the links: no reply state, no request under way.
InitRest ==
    /\ reply_permit = [k \in PermitKeys |-> NoPermit]
    /\ active_reply = [c \in Chats |-> NoSession]
    /\ last_pm_sender = [c \in Chats |-> [v |-> <<>>, ttl |-> 0]]
    /\ last_guild_sender = [c \in Chats |-> [v |-> <<>>, ttl |-> 0]]
    /\ telegram_pending = [u \in Users |-> <<>>]
    /\ pending_ttl = [u \in Users |-> 0]
    /\ now = 0
    /\ nextMsgId = 1
    /\ buttons = {}
    /\ notified = 0
    /\ elapsed = 0
    /\ lanes \in Req
    /\ req = [r \in Req |-> Idle]
Init == InitLinks({TokenBare("p42")}) /\ InitRest

\* ------------------------------------------------------------ inbound events
\* The branch of the message dispatch that msg.text takes.
Route(text) ==
    IF IsCommand(text) THEN
        IF StartsWith(text, "/start") THEN "start_get"
        ELSE IF StartsWith(text, "/link") THEN
            IF HasArg(text) THEN "link_get" ELSE "respond"
        ELSE IF StartsWith(text, "/disconnect") THEN "disc_get"
        ELSE IF StartsWith(text, "/status") THEN "status_get"
        ELSE IF StartsWith(text, "/reply") THEN
            IF HasArg(text) THEN "reply_get" ELSE "respond"
        ELSE IF StartsWith(text, "/guild") THEN
            IF HasArg(text) THEN "guild_get" ELSE "respond"
        ELSE "respond"
    ELSE "text_get"

\* The pending lists have room for another reply.
QueueRoom == \A u \in Users : Len(telegram_pending[u]) < MaxPending

\* update.message: chat c sends text t.
ReceiveMessage(r, c, t) ==
    /\ Free(r)
    /\ Route(t) \in {"reply_get", "guild_get", "text_get"} => QueueRoom
    /\ req' = [req EXCEPT ![r] =
                 [Idle EXCEPT !.pc = Route(t), !.kind = "message", !.chat = c,
                              !.text = t, !.status = IF Route(t) = "respond" THEN 200 ELSE 0,
                              !.linkId = IF HasArg(t) THEN t[3] ELSE Nil]]
    /\ UNCHANGED <<store, env>>

\* update.callback_query with a menu payload; answerCallbackQuery comes first.
ReceiveCallback(r, c, a) ==
    /\ Free(r)
    /\ LET p == CASE a = "help" -> "help_send"
                  [] a = "status" -> "status_get"
                  [] a = "disconnect" -> "disc_get"
                  [] OTHER -> "respond"
       IN req' = [req EXCEPT ![r] =
                    [Idle EXCEPT !.pc = p, !.kind = "callback", !.chat = c,
                                 !.ack = TRUE, !.status = IF p = "respond" THEN 200 ELSE 0]]
    /\ UNCHANGED <<store, env>>

\* update.callback_query of a delivered reply button b: payload reply_context:<ctx>.
ReceiveReplyButton(r, b) ==
    /\ Free(r)
    /\ b \in buttons
    /\ req' = [req EXCEPT ![r] =
                 [Idle EXCEPT !.pc = "permit_get", !.kind = "reply_context",
                              !.chat = b.chat, !.ctx = b.ctx, !.msgId = b.msgId,
                              !.ack = TRUE]]
    /\ UNCHANGED <<store, env>>

\* res.status(200).send('OK'): the handler instance ends.
Respond(r) ==
    /\ req[r].pc = "respond"
    /\ req' = [req EXCEPT ![r] = Idle]
    /\ UNCHANGED <<store, env>>

\* ------------------------------------------------------------- /start, status
getUserIdUnkeyed(c) == Nil
\* Helpers.getUserId(chatId)
getUserId(c) == telegram_chat[c]

StartGet(r) ==
    /\ req[r].pc = "start_get"
    /\ LET q == req[r]
           existingUserId == getUserId(q.chat)
       IN req' = [req EXCEPT ![r] =
                    IF existingUserId # Nil
                    THEN Finished(Sent(q, "status", <<existingUserId>>))
                    ELSE IF q.linkId # Nil THEN At(q, "link_get")
                    ELSE Finished(Sent(q, "welcome", <<>>))]
    /\ UNCHANGED <<store, env>>

StatusGet(r) ==
    /\ req[r].pc = "status_get"
    /\ LET q == req[r]
           userId == getUserId(q.chat)
       IN req' = [req EXCEPT ![r] =
                    IF userId # Nil THEN Finished(Sent(q, "status", <<userId>>))
                    ELSE Finished(Sent(q, "notLinked", <<>>))]
    /\ UNCHANGED <<store, env>>

HelpSend(r) ==
    /\ req[r].pc = "help_send"
    /\ req' = [req EXCEPT ![r] = Finished(Sent(req[r], "help", <<>>))]
    /\ UNCHANGED <<store, env>>

\* ------------------------------------------------------- Actions.linkAccount
\* if (!userDataString) return Telegram.sendMessage(chatId, "Invalid or Expired Token.")
InvalidTokenSilent(q) == Finished(q)
InvalidTokenThenWelcome(q) ==
    Finished(Sent(Sent(q, "invalidToken", <<>>), "welcome", <<>>))
InvalidToken(q) == Finished(Sent(q, "invalidToken", <<>>))

\* redis.get(`telegram_token:${linkId}`), the absent-token return, the parse.
LinkGetToken(r) ==
    /\ req[r].pc = "link_get"
    /\ LET q == req[r]
           userDataString == telegram_token[q.linkId]
           userData == ParseUserData(userDataString)
       IN req' = [req EXCEPT ![r] =
                    IF userDataString = NoToken
                    THEN InvalidToken(q)
                    ELSE [q EXCEPT !.pc = "link_set_chat", !.userId = userData.userId,
                                   !.serverId = userData.serverId]]
    /\ UNCHANGED <<store, env>>

\* redis.set(`telegram_chat:${chatId}`, userId); the client stores an undefined
\* userId as the empty string, which every reader takes for no link (Nil).
LinkSetChat(r) ==
    /\ req[r].pc = "link_set_chat"
    /\ telegram_chat' = [telegram_chat EXCEPT ![req[r].chat] = req[r].userId]
    /\ req' = [req EXCEPT ![r] = At(@, "link_set_user")]
    /\ UNCHANGED <<telegram_token, telegram_user, telegram_metadata, replies, queue, env>>

\* redis.set(`telegram_user:${userId}`, chatId)
LinkSetUser(r) ==
    /\ req[r].pc = "link_set_user"
    /\ LET key == IF req[r].userId = Nil THEN "undefined" ELSE req[r].userId
       IN telegram_user' = [telegram_user EXCEPT ![key] = req[r].chat]
    /\ req' = [req EXCEPT ![r] =
                 At(@, IF req[r].serverId # Nil THEN "link_hset" ELSE "link_del")]
    /\ UNCHANGED <<telegram_token, telegram_chat, telegram_metadata, replies, queue, env>>

\* if (serverId) redis.hset(`telegram_metadata:${userId}`, 'server', serverId)
LinkHset(r) ==
    /\ req[r].pc = "link_hset"
    /\ telegram_metadata' = [telegram_metadata EXCEPT ![req[r].userId] = req[r].serverId]
    /\ req' = [req EXCEPT ![r] = At(@, "link_del")]
    /\ UNCHANGED <<telegram_token, telegram_chat, telegram_user, replies, queue, env>>

\* redis.del(`telegram_token:${linkId}`), then the "Connection Successful" message
LinkDelToken(r) ==
    /\ req[r].pc = "link_del"
    /\ telegram_token' = [telegram_token EXCEPT ![req[r].linkId] = NoToken]
    /\ req' = [req EXCEPT ![r] =
                 Finished(Sent(@, "linked", <<req[r].userId>>))]
    /\ UNCHANGED <<telegram_chat, telegram_user, telegram_metadata, replies, queue, env>>

\* ------------------------------------------------- Actions.disconnectAccount
DisconnectGet(r) ==
    /\ req[r].pc = "disc_get"
    /\ LET q == req[r]
           userId == getUserId(q.chat)
       IN req' = [req EXCEPT ![r] =
                    IF userId # Nil THEN [q EXCEPT !.pc = "disc_del_chat", !.userId = userId]
                    ELSE Finished(Sent(q, "notConnected", <<>>))]
    /\ UNCHANGED <<store, env>>

\* redis.del(`telegram_chat:${chatId}`)
DisconnectDelChat(r) ==
    /\ req[r].pc = "disc_del_chat"
    /\ telegram_chat' = [telegram_chat EXCEPT ![req[r].chat] = Nil]
    /\ req' = [req EXCEPT ![r] = At(@, "disc_del_user")]
    /\ UNCHANGED <<telegram_token, telegram_user, telegram_metadata, replies, queue, env>>

\* redis.del(`telegram_user:${userId}`), then the "Disconnected" message
DisconnectDelUser(r) ==
    /\ req[r].pc = "disc_del_user"
    /\ telegram_user' = [telegram_user EXCEPT ![req[r].userId] = Nil]
    /\ req' = [req EXCEPT ![r] = Finished(Sent(@, "disconnected", <<>>))]
    /\ UNCHANGED <<telegram_token, telegram_chat, telegram_metadata, replies, queue, env>>

\* --------------------------------------------------------- reply_context press
NewSessionNoAnchor(permit, msgId) ==
    [target |-> permit.target, type |-> permit.type, originalMsgId |-> 0,
     ttl |-> REPLY_WINDOW]
\* The session the button press stores: target and type of the permit, the id
\* of the message that carries the button, EX 300.
NewSession(permit, msgId) ==
    [target |-> permit.target, type |-> permit.type, originalMsgId |-> msgId,
     ttl |-> REPLY_WINDOW]

\* if (!permitString) Telegram.sendMessage(chatId, UI.replyExpired)
PermitExpiredSilent(q) == Finished(q)
PermitExpired(q) == Finished(Sent(q, "replyExpired", <<>>))

\* redis.get(`reply_permit:${chatId}:${contextId}`), the expired branch
PermitGet(r) ==
    /\ req[r].pc = "permit_get"
    /\ LET q == req[r]
           permitString == reply_permit[<<q.chat, q.ctx>>]
       IN req' = [req EXCEPT ![r] =
                    IF permitString = NoPermit
                    THEN PermitExpired(q)
                    ELSE [q EXCEPT !.pc = "session_set", !.permit = permitString]]
    /\ UNCHANGED <<store, env>>

SessionSetUnpermitted(r) ==
    /\ req[r].pc = "session_set"
    /\ active_reply' = [active_reply EXCEPT ![req[r].chat] =
                          NewSession([target |-> <<"Guild">>, type |-> "GUILD",
                                      ttl |-> REPLY_WINDOW], req[r].msgId)]
    /\ req' = [req EXCEPT ![r] = Finished(Sent(@, "replyPrompt", req[r].permit.target))]
    /\ UNCHANGED <<links, reply_permit, last_pm_sender, last_guild_sender, queue, env>>
\* redis.set(`active_reply:${chatId}`, ..., 'EX', 300), then the reply prompt
SessionSet(r) ==
    /\ req[r].pc = "session_set"
    /\ active_reply' = [active_reply EXCEPT ![req[r].chat] =
                          NewSession(req[r].permit, req[r].msgId)]
    /\ req' = [req EXCEPT ![r] = Finished(Sent(@, "replyPrompt", req[r].permit.target))]
    /\ UNCHANGED <<links, reply_permit, last_pm_sender, last_guild_sender, queue, env>>

\* ------------------------------------- Actions.sendReply / sendGuildMessage
PayloadGuildTo(sub, to, content) ==
    IF sub = "reply" THEN [to |-> to, content |-> content]
    ELSE [to |-> <<"Guild">>, content |-> content]
\* The payload queueReply pushes, as JSON.stringify writes it.
Payload(sub, to, content) ==
    IF sub = "reply" THEN [to |-> to, content |-> content] ELSE [content |-> content]

\* The handler goes on at the caller's next statement.
Return(q) == IF q.ret = "respond" THEN Finished(q) ELSE At(q, q.ret)

\* Helpers.getUserId(chatId) in sendReply / sendGuildMessage, the notLinked return
SendGetUser(r) ==
    /\ req[r].pc = "send_get"
    /\ LET q == req[r]
           userId == getUserId(q.chat)
       IN req' = [req EXCEPT ![r] =
                    IF userId = Nil THEN Return(Sent(q, "notLinked", <<>>))
                    ELSE [q EXCEPT !.pc = "queue_push", !.userId = userId]]
    /\ UNCHANGED <<store, env>>

\* Helpers.queueReply: redis.rpush(listKey, JSON.stringify(payload))
QueuePush(r) ==
    /\ req[r].pc = "queue_push"
    /\ telegram_pending' = [telegram_pending EXCEPT ![req[r].userId] =
                              Append(@, Payload(req[r].sub, req[r].to, req[r].content))]
    /\ req' = [req EXCEPT ![r] = At(@, "queue_expire")]
    /\ UNCHANGED <<links, replies, pending_ttl, env>>

QueueNoExpire(r) ==
    /\ req[r].pc = "queue_expire"
    /\ req' = [req EXCEPT ![r] =
                 Return(Sent(@, IF req[r].sub = "reply" THEN "messageSent" ELSE "guildSent",
                             req[r].to))]
    /\ UNCHANGED <<store, env>>
\* Helpers.queueReply: redis.expire(listKey, CONFIG.MESSAGE_TTL), then the
\* "Message Sent" message of the caller
QueueExpire(r) ==
    /\ req[r].pc = "queue_expire"
    /\ pending_ttl' = [pending_ttl EXCEPT ![req[r].userId] =
                         IF telegram_pending[req[r].userId] # <<>> THEN MESSAGE_TTL ELSE @]
    /\ req' = [req EXCEPT ![r] =
                 Return(Sent(@, IF req[r].sub = "reply" THEN "messageSent" ELSE "guildSent",
                             req[r].to))]
    /\ UNCHANGED <<links, replies, telegram_pending, env>>

\* ----------------------------------------------------------- /reply, /guild
\* redis.get(`last_pm_sender:${chatId}`)
ReplyGet(r) ==
    /\ req[r].pc = "reply_get"
    /\ LET q == req[r]
           lastSender == last_pm_sender[q.chat].v
       IN req' = [req EXCEPT ![r] =
                    IF lastSender # <<>>
                    THEN [q EXCEPT !.pc = "send_get", !.sub = "reply", !.to = lastSender,
                                   !.content = ArgOf(q.text), !.ret = "respond"]
                    ELSE Finished(Sent(q, "noReplyContext", <<>>))]
    /\ UNCHANGED <<store, env>>

\* redis.get(`last_guild_sender:${chatId}`)
GuildGet(r) ==
    /\ req[r].pc = "guild_get"
    /\ LET q == req[r]
           lastSender == last_guild_sender[q.chat].v
       IN req' = [req EXCEPT ![r] =
                    IF lastSender # <<>>
                    THEN [q EXCEPT !.pc = "send_get", !.sub = "guild",
                                   !.content = ArgOf(q.text), !.ret = "respond"]
                    ELSE Finished(Sent(q, "noReplyContext", <<>>))]
    /\ UNCHANGED <<store, env>>

\* ------------------------------------------------------------------ free text
\* No active reply session: the text is ignored.
IgnoredTextAnswered(q) == Finished(Sent(q, "noReplyContext", <<>>))
IgnoredText(q) == Finished(q)

\* redis.get(`active_reply:${chatId}`) and the branch on the session's type
TextGet(r) ==
    /\ req[r].pc = "text_get"
    /\ LET q == req[r]
           activeReply == active_reply[q.chat]
       IN req' = [req EXCEPT ![r] =
                    IF activeReply = NoSession THEN IgnoredText(q)
                    ELSE IF activeReply.type = "PM"
                    THEN [q EXCEPT !.pc = "send_get", !.sub = "reply", !.session = activeReply,
                                   !.to = activeReply.target, !.content = q.text,
                                   !.ret = "text_del"]
                    ELSE IF activeReply.type = "GUILD"
                    THEN [q EXCEPT !.pc = "send_get", !.sub = "guild", !.session = activeReply,
                                   !.content = q.text, !.ret = "text_del"]
                    ELSE [q EXCEPT !.pc = "text_del", !.session = activeReply]]
    /\ UNCHANGED <<store, env>>

\* Telegram.editMessageReplyMarkup(chatId, originalMsgId, "Replied"), then
\* redis.del(`active_reply:${chatId}`)
TextDelSession(r) ==
    /\ req[r].pc = "text_del"
    /\ active_reply' = [active_reply EXCEPT ![req[r].chat] = NoSession]
    /\ req' = [req EXCEPT ![r] =
                 [@ EXCEPT !.pc = "text_del_permit", !.edited = req[r].session.originalMsgId]]
    /\ UNCHANGED <<links, reply_permit, last_pm_sender, last_guild_sender, queue, env>>

\* redis.del(`reply_permit:${chatId}:${activeReply.originalMsgId}`)
TextDelPermit(r) ==
    /\ req[r].pc = "text_del_permit"
    /\ reply_permit' = [reply_permit EXCEPT
                          ![<<req[r].chat, req[r].session.originalMsgId>>] = NoPermit]
    /\ req' = [req EXCEPT ![r] = Finished(@)]
    /\ UNCHANGED <<links, active_reply, last_pm_sender, last_guild_sender, queue, env>>

\* -------------------------------------------- notification handler (server -> bot)
NewPermitNoExpiry(sender, type) == [target |-> sender, type |-> type, ttl |-> 0]
\* The permit the handler stores for a classified notification, EX REPLY_WINDOW.
NewPermit(sender, type) == [target |-> sender, type |-> type, ttl |-> REPLY_WINDOW]

\* After the chat is known: Date.now() is read and the text is classified.
Resolved(q, chatId, t) ==
    [q EXCEPT !.chat = chatId, !.ctx = ContextIdAt(t),
              !.pc = IF Classify(q.text).type = Nil THEN "notify_send" ELSE "notify_last"]

\* Date.now(): a later millisecond than every reading before, or the very
\* millisecond another notification handler read that is still under way (a
\* handler that has finished its round trips has taken more than a millisecond).
ClockReadings ==
    {now + 1} \cup
    {t \in {now} : \E q \in Req :
        /\ req[q].kind = "notify"
        /\ req[q].pc \in {"notify_last", "notify_permit", "notify_send"}
        /\ req[q].ctx = ContextIdAt(t)}

\* POST {userId, text, chatId?}: the 400 answer for a missing userId or text
ReceiveNotify(r, u, t, payloadChatId) ==
    /\ Free(r)
    /\ notified < MaxNotify
    /\ notified' = notified + 1
    /\ LET q == [Idle EXCEPT !.kind = "notify", !.userId = u, !.text = t,
                             !.chat = payloadChatId]
       IN req' = [req EXCEPT ![r] =
                    IF u = Nil \/ t = <<>> THEN [Idle EXCEPT !.pc = "answer", !.status = 400]
                    ELSE At(q, "notify_get")]
    /\ UNCHANGED <<store, now, nextMsgId, buttons, elapsed, lanes>>

\* chatId = payloadChatId || await Helpers.getChatId(userId), the 404 answer;
\* with a chat, Date.now() gives the context id.
NotifyGetChat(r, ms) ==
    /\ req[r].pc = "notify_get"
    /\ LET q == req[r]
           chatId == IF q.chat # Nil THEN q.chat ELSE telegram_user[q.userId]
       IN IF chatId # Nil
          THEN req' = [req EXCEPT ![r] = Resolved(q, chatId, ms)] /\ now' = ms
          ELSE req' = [req EXCEPT ![r] = [q EXCEPT !.pc = "answer", !.status = 404]]
               /\ UNCHANGED now
    /\ UNCHANGED <<store, nextMsgId, buttons, notified, elapsed, lanes>>

\* redis.set(`last_pm_sender:${chatId}` | `last_guild_sender:${chatId}`, sender, 'EX', ...)
NotifySetLast(r) ==
    /\ req[r].pc = "notify_last"
    /\ LET q == req[r]
           c == Classify(q.text)
           v == [v |-> c.sender, ttl |-> REPLY_WINDOW]
       IN /\ IF c.type = "PM"
             THEN /\ last_pm_sender' = [last_pm_sender EXCEPT ![q.chat] = v]
                  /\ UNCHANGED last_guild_sender
             ELSE /\ last_guild_sender' = [last_guild_sender EXCEPT ![q.chat] = v]
                  /\ UNCHANGED last_pm_sender
          /\ req' = [req EXCEPT ![r] = At(q, "notify_permit")]
    /\ UNCHANGED <<links, reply_permit, active_reply, queue, env>>

\* redis.set(`reply_permit:${chatId}:${contextId}`, {target, type}, 'EX', ...)
NotifySetPermit(r) ==
    /\ req[r].pc = "notify_permit"
    /\ LET q == req[r]
           c == Classify(q.text)
       IN /\ reply_permit' = [reply_permit EXCEPT ![<<q.chat, q.ctx>>] =
                                NewPermit(c.sender, c.type)]
          /\ req' = [req EXCEPT ![r] = At(q, "notify_send")]
    /\ UNCHANGED <<links, active_reply, last_pm_sender, last_guild_sender, queue, env>>

NotifySendSwallowed(r, ok) ==
    /\ req[r].pc = "notify_send"
    /\ req' = [req EXCEPT ![r] = [@ EXCEPT !.pc = "answer", !.status = 200]]
    /\ UNCHANGED <<store, env>>
\* Helpers.sendMessage(chatId, formattedText, options): Telegram delivers the
\* message (with the reply button when the text was classified) or the call throws.
NotifySend(r, ok) ==
    /\ req[r].pc = "notify_send"
    /\ LET q == req[r]
           withButton == Classify(q.text).type # Nil
       IN IF ok
          THEN /\ nextMsgId' = nextMsgId + 1
               /\ buttons' = IF withButton
                             THEN buttons \cup {[chat |-> q.chat, ctx |-> q.ctx,
                                                 msgId |-> nextMsgId,
                                                 type |-> Classify(q.text).type,
                                                 sender |-> Classify(q.text).sender]}
                             ELSE buttons
               /\ req' = [req EXCEPT ![r] =
                            [Sent(q, IF withButton THEN "notificationButton"
                                     ELSE "notification", <<>>)
                               EXCEPT !.pc = "answer", !.status = 200, !.msgId = nextMsgId]]
          ELSE /\ req' = [req EXCEPT ![r] = [q EXCEPT !.pc = "answer", !.status = 500]]
               /\ UNCHANGED <<nextMsgId, buttons>>
    /\ UNCHANGED <<store, now, notified, elapsed, lanes>>

\* res.json(...) / res.status(...).json(...): the handler instance ends.
Answer(r) ==
    /\ req[r].pc = "answer"
    /\ req' = [req EXCEPT ![r] = Idle]
    /\ UNCHANGED <<store, env>>

\* ------------------------------------ notification handler (stateless proxy)
\* POST {userId, text, chatId}: the 400 answer for a missing chatId or text; no
\* store is read. With both present, Date.now() gives the button's context id.
ProxyReceive(r, u, t, chatId, ms) ==
    /\ Free(r)
    /\ notified < MaxNotify
    /\ notified' = notified + 1
    /\ LET q == [Idle EXCEPT !.kind = "proxy", !.userId = u, !.text = t, !.chat = chatId,
                             !.ctx = ContextIdAt(ms), !.pc = "proxy_send"]
       IN IF chatId = Nil \/ t = <<>>
          THEN /\ req' = [req EXCEPT ![r] = [q EXCEPT !.pc = "answer", !.ctx = 0,
                                                      !.status = 400]]
               /\ UNCHANGED now
          ELSE /\ req' = [req EXCEPT ![r] = q]
               /\ now' = ms
    /\ UNCHANGED <<store, nextMsgId, buttons, elapsed, lanes>>

\* Telegram.sendMessage(chatId, formattedText, options): the message is delivered
\* (with the reply button when the text matched) or the call throws: 500.
ProxySend(r, ok) ==
    /\ req[r].pc = "proxy_send"
    /\ LET q == req[r]
           withButton == Classify(q.text).type # Nil
       IN IF ok
          THEN /\ nextMsgId' = nextMsgId + 1
               /\ buttons' = IF withButton
                             THEN buttons \cup {[chat |-> q.chat, ctx |-> q.ctx,
                                                 msgId |-> nextMsgId,
                                                 type |-> Classify(q.text).type,
                                                 sender |-> Classify(q.text).sender]}
                             ELSE buttons
               /\ req' = [req EXCEPT ![r] =
                            [Sent(q, IF withButton THEN "notificationButton"
                                     ELSE "notification", <<>>)
                               EXCEPT !.pc = "answer", !.status = 200, !.msgId = nextMsgId]]
          ELSE /\ req' = [req EXCEPT ![r] = [q EXCEPT !.pc = "answer", !.status = 500]]
               /\ UNCHANGED <<nextMsgId, buttons>>
    /\ UNCHANGED <<store, now, notified, elapsed, lanes>>

\* ------------------------------------------- polling bot: /reply and /guild
\* msg.text of the bot's commands: /reply <Player> <Msg>, /reply <word>, /guild <Msg>.
BotTexts ==
    { <<"/reply", " ", "Bob", " ", "hey">>, <<"/reply", " ", "hey">>,
      <<"/guild", " ", "hey">> }

\* fullText.indexOf(' '), counted from 1; 0 when there is none (-1 in the code).
FirstSpace(fullText) ==
    IF \E i \in 1..Len(fullText) : fullText[i] = " "
    THEN CHOOSE i \in 1..Len(fullText) :
            fullText[i] = " " /\ \A j \in 1..(i - 1) : fullText[j] # " "
    ELSE 0

\* bot.onText(/\/reply (.+)/) or bot.onText(/\/guild (.+)/) fires for chat c.
BotReceive(r, c, t) ==
    /\ Free(r)
    /\ QueueRoom
    /\ HasArg(t) /\ (StartsWith(t, "/reply") \/ StartsWith(t, "/guild"))
    /\ req' = [req EXCEPT ![r] =
                 [Idle EXCEPT !.pc = "bot_get", !.kind = "bot", !.chat = c, !.text = t]]
    /\ UNCHANGED <<store, env>>

\* redis.get(`telegram_chat:${chatId}`), the notLinked return, the split of
\* /reply's argument at its first space and the usage return.
BotGet(r) ==
    /\ req[r].pc = "bot_get"
    /\ LET q == req[r]
           userId == telegram_chat[q.chat]
           fullText == ArgOf(q.text)
           firstSpace == FirstSpace(fullText)
       IN req' = [req EXCEPT ![r] =
                    IF userId = Nil THEN At(Sent(q, "notLinked", <<>>), "bot_done")
                    ELSE IF StartsWith(q.text, "/guild")
                    THEN [q EXCEPT !.pc = "bot_push", !.userId = userId, !.sub = "guild",
                                   !.to = <<"Guild">>, !.content = fullText]
                    ELSE IF firstSpace = 0 THEN At(Sent(q, "usage", <<>>), "bot_done")
                    ELSE [q EXCEPT !.pc = "bot_push", !.userId = userId, !.sub = "reply",
                                   !.to = SubSeq(fullText, 1, firstSpace - 1),
                                   !.content = SubSeq(fullText, firstSpace + 1,
                                                      Len(fullText))]]
    /\ UNCHANGED <<store, env>>

\* redis.rpush(`telegram_pending:${userId}`, JSON.stringify({ to, content }))
BotPush(r) ==
    /\ req[r].pc = "bot_push"
    /\ telegram_pending' = [telegram_pending EXCEPT ![req[r].userId] =
                              Append(@, [to |-> req[r].to, content |-> req[r].content])]
    /\ req' = [req EXCEPT ![r] = At(@, "bot_expire")]
    /\ UNCHANGED <<links, replies, pending_ttl, env>>

\* redis.expire(`telegram_pending:${userId}`, 86400), then the "Sent" message
BotExpire(r) ==
    /\ req[r].pc = "bot_expire"
    /\ pending_ttl' = [pending_ttl EXCEPT ![req[r].userId] =
                         IF telegram_pending[req[r].userId] # <<>> THEN MESSAGE_TTL ELSE @]
    /\ req' = [req EXCEPT ![r] =
                 At(Sent(@, IF req[r].sub = "reply" THEN "messageSent" ELSE "guildSent",
                         req[r].to), "bot_done")]
    /\ UNCHANGED <<links, replies, telegram_pending, env>>

\* The listener returns.
BotDone(r) ==
    /\ req[r].pc = "bot_done"
    /\ req' = [req EXCEPT ![r] = Idle]
    /\ UNCHANGED <<store, env>>

\* ------------------------------------------------------ polling bot: /start
\* bot.onText(/\/start(?: (.+))?/): with a token the listener returns
\* linkAccount(chatId, linkId) at once (the bot's linkAccount makes the store
\* calls of Actions.linkAccount, so the link steps are shared); without one it
\* goes on to the lookup of the chat.
BotStartReceive(r, c, t) ==
    /\ Free(r)
    /\ StartsWith(t, "/start")
    /\ LET linkId == IF HasArg(t) THEN t[3] ELSE Nil
       IN req' = [req EXCEPT ![r] =
                    [Idle EXCEPT !.pc = IF linkId # Nil THEN "link_get" ELSE "bot_start_get",
                                 !.kind = "bot", !.chat = c, !.text = t, !.linkId = linkId]]
    /\ UNCHANGED <<store, env>>

\* redis.get(`telegram_chat:${chatId}`), then the status or the welcome message
BotStartGet(r) ==
    /\ req[r].pc = "bot_start_get"
    /\ LET q == req[r]
           userId == telegram_chat[q.chat]
       IN req' = [req EXCEPT ![r] =
                    IF userId # Nil THEN At(Sent(q, "status", <<userId>>), "bot_done")
                    ELSE At(Sent(q, "welcome", <<>>), "bot_done")]
    /\ UNCHANGED <<store, env>>

\* ------------------------------------------------------ webhook failures
\* The positions of the webhook handler at which a store call is awaited.
LinkAwaits == {"link_get", "link_set_chat", "link_set_user", "link_hset", "link_del"}
StoreAwaits ==
    LinkAwaits \cup
    {"start_get", "status_get", "disc_get", "disc_del_chat", "disc_del_user",
     "permit_get", "session_set", "send_get", "queue_push", "queue_expire",
     "reply_get", "guild_get", "text_get", "text_del", "text_del_permit"}

StoreFailsUncaught(r) ==
    /\ req[r].pc \in StoreAwaits
    /\ req' = [req EXCEPT ![r] = [@ EXCEPT !.pc = "respond", !.status = 500, !.ret = "catch"]]
    /\ UNCHANGED <<store, env>>

\* The awaited store call rejects. Inside linkAccount its own catch sends the
\* "System Error" message and the handler goes on to res.status(200).send('OK');
\* anywhere else the handler's catch answers res.status(200).send('Error').
\* (A failing Telegram call throws nothing: Telegram.call returns null.)
StoreFails(r) ==
    /\ req[r].pc \in StoreAwaits
    /\ req' = [req EXCEPT ![r] =
                 IF req[r].pc \in LinkAwaits
                 THEN Finished(Sent(@, "systemError", <<>>))
                 ELSE [@ EXCEPT !.pc = "respond", !.status = 200, !.ret = "catch"]]
    /\ UNCHANGED <<store, env>>

\* A body that is neither a callback query nor a message, or no body at all
\* (update.callback_query then throws inside the try).
ReceiveMalformed(r, thrown) ==
    /\ Free(r)
    /\ req' = [req EXCEPT ![r] =
                 [Idle EXCEPT !.pc = "respond", !.kind = "other", !.status = 200,
                              !.ret = IF thrown THEN "catch" ELSE Nil]]
    /\ UNCHANGED <<store, env>>

\* ------------------------------------------------------------------- the clock
\* What d seconds leave of a key's time to live (0: no expiry set).
Aged(ttl, d) == IF ttl = 0 THEN 0 ELSE ttl - d
Lapsed(ttl, d) == ttl # 0 /\ ttl - d <= 0

\* d seconds pass; the store drops every key whose time to live has run out.
Tick(d) ==
    /\ elapsed < MaxClock
    /\ elapsed' = elapsed + 1
    /\ now' = now + 1
    /\ reply_permit' = [k \in DOMAIN reply_permit |->
                          IF Lapsed(reply_permit[k].ttl, d) THEN NoPermit
                          ELSE [reply_permit[k] EXCEPT !.ttl = Aged(@, d)]]
    /\ active_reply' = [c \in Chats |->
                          IF Lapsed(active_reply[c].ttl, d) THEN NoSession
                          ELSE [active_reply[c] EXCEPT !.ttl = Aged(@, d)]]
    /\ last_pm_sender' = [c \in Chats |->
                            IF Lapsed(last_pm_sender[c].ttl, d) THEN [v |-> <<>>, ttl |-> 0]
                            ELSE [last_pm_sender[c] EXCEPT !.ttl = Aged(@, d)]]
    /\ last_guild_sender' = [c \in Chats |->
                              IF Lapsed(last_guild_sender[c].ttl, d) THEN [v |-> <<>>, ttl |-> 0]
                              ELSE [last_guild_sender[c] EXCEPT !.ttl = Aged(@, d)]]
    /\ telegram_pending' = [u \in Users |->
                              IF Lapsed(pending_ttl[u], d) THEN <<>> ELSE telegram_pending[u]]
    /\ pending_ttl' = [u \in Users |->
                         IF Lapsed(pending_ttl[u], d) THEN 0 ELSE Aged(pending_ttl[u], d)]
    /\ UNCHANGED <<links, nextMsgId, buttons, notified, lanes, req>>

\* ------------------------------------------------------------ specification
\* The commands and buttons of the linking state machine.
LinkTexts ==
    { <<"/start">>, <<"/start", " ", "ABC123">>, <<"/link", " ", "ABC123">>,
      <<"/link", " ", "XYZ789">>, <<"/link">>, <<"/disconnect">>, <<"/status">>,
      <<"/help">> }
\* The commands and texts of the reply state machine.
ReplyTexts ==
    { <<"/reply", " ", "hey">>, <<"/reply">>, <<"/guild", " ", "hey">>, <<"/guild">>,
      <<"hello back">>, <<>> }

\* Linking: /start, /link, /disconnect, /status and the menu buttons.
NextLink ==
    \/ \E r \in Req, c \in Chats, t \in LinkTexts : ReceiveMessage(r, c, t)
    \/ \E r \in Req, c \in Chats, a \in CallbackActions : ReceiveCallback(r, c, a)
    \/ \E r \in Req : Respond(r)
    \/ \E r \in Req : StartGet(r)
    \/ \E r \in Req : StatusGet(r)
    \/ \E r \in Req : HelpSend(r)
    \/ \E r \in Req : LinkGetToken(r)
    \/ \E r \in Req : LinkSetChat(r)
    \/ \E r \in Req : LinkSetUser(r)
    \/ \E r \in Req : LinkHset(r)
    \/ \E r \in Req : LinkDelToken(r)
    \/ \E r \in Req : DisconnectGet(r)
    \/ \E r \in Req : DisconnectDelChat(r)
    \/ \E r \in Req : DisconnectDelUser(r)

\* Replies: notifications, reply buttons, /reply, /guild, free text, the clock.
NextReply ==
    \/ \E r \in Req, c \in Chats, t \in ReplyTexts : ReceiveMessage(r, c, t)
    \/ \E r \in Req, b \in buttons : ReceiveReplyButton(r, b)
    \/ \E r \in Req, u \in Users \cup {Nil}, t \in NotifyTexts \cup {<<>>},
          c \in Chats \cup {Nil} : ReceiveNotify(r, u, t, c)
    \/ \E r \in Req : Respond(r)
    \/ \E r \in Req : Answer(r)
    \/ \E r \in Req : PermitGet(r)
    \/ \E r \in Req : SessionSet(r)
    \/ \E r \in Req : SendGetUser(r)
    \/ \E r \in Req : QueuePush(r)
    \/ \E r \in Req : QueueExpire(r)
    \/ \E r \in Req : ReplyGet(r)
    \/ \E r \in Req : GuildGet(r)
    \/ \E r \in Req : TextGet(r)
    \/ \E r \in Req : TextDelSession(r)
    \/ \E r \in Req : TextDelPermit(r)
    \/ \E r \in Req, ms \in ClockReadings : NotifyGetChat(r, ms)
    \/ \E r \in Req : NotifySetLast(r)
    \/ \E r \in Req : NotifySetPermit(r)
    \/ \E r \in Req, ok \in BOOLEAN : NotifySend(r, ok)
    \/ Tick(TickSeconds)

\* Replies in one linked chat: its notifications (through the account lookup),
\* its reply buttons and its free text.
NextReplyRace ==
    \/ \E r \in Req, t \in {<<"hello back">>} : ReceiveMessage(r, "c1", t)
    \/ \E r \in Req, b \in buttons : ReceiveReplyButton(r, b)
    \/ \E r \in Req, t \in {TextPM, TextGuild} : ReceiveNotify(r, "p42", t, Nil)
    \/ \E r \in Req : Respond(r)
    \/ \E r \in Req : Answer(r)
    \/ \E r \in Req : PermitGet(r)
    \/ \E r \in Req : SessionSet(r)
    \/ \E r \in Req : SendGetUser(r)
    \/ \E r \in Req : QueuePush(r)
    \/ \E r \in Req : QueueExpire(r)
    \/ \E r \in Req : TextGet(r)
    \/ \E r \in Req : TextDelSession(r)
    \/ \E r \in Req : TextDelPermit(r)
    \/ \E r \in Req, ms \in ClockReadings : NotifyGetChat(r, ms)
    \/ \E r \in Req : NotifySetLast(r)
    \/ \E r \in Req : NotifySetPermit(r)
    \/ \E r \in Req : NotifySend(r, TRUE)

\* Notifications through either dispatcher, interleaved; the clock steps only
\* between requests (a request lasts seconds, the windows last 300).
NextNotify ==
    \/ \E r \in Req, u \in Users \cup {Nil}, t \in NotifyTexts \cup {<<>>},
          c \in Chats \cup {Nil} : ReceiveNotify(r, u, t, c)
    \/ \E r \in Req, ms \in ClockReadings : NotifyGetChat(r, ms)
    \/ \E r \in Req : NotifySetLast(r)
    \/ \E r \in Req : NotifySetPermit(r)
    \/ \E r \in Req, ok \in BOOLEAN : NotifySend(r, ok)
    \/ \E r \in Req, u \in Users \cup {Nil}, t \in NotifyTexts \cup {<<>>},
          c \in Chats \cup {Nil}, ms \in ClockReadings : ProxyReceive(r, u, t, c, ms)
    \/ \E r \in Req, ok \in BOOLEAN : ProxySend(r, ok)
    \/ \E r \in Req : Answer(r)
    \/ (\A r \in Req : req[r].pc = "idle") /\ Tick(TickSeconds)

\* One text for every branch of the message dispatch.
WebhookTexts ==
    { <<"/start">>, <<"/start", " ", "ABC123">>, <<"/link", " ", "XYZ789">>,
      <<"/disconnect">>, <<"/status">>, <<"/help">>, <<"/reply", " ", "hey">>,
      <<"/guild", " ", "hey">>, <<"hello back">> }
\* Every kind of webhook event of one chat, with store failures and malformed
\* bodies; the reply buttons come from notifications to the chat of account p42.
NextWebhook ==
    \/ \E r \in Req, t \in WebhookTexts : ReceiveMessage(r, "c1", t)
    \/ \E r \in Req, a \in CallbackActions : ReceiveCallback(r, "c1", a)
    \/ \E r \in Req : Respond(r)
    \/ \E r \in Req : StartGet(r)
    \/ \E r \in Req : StatusGet(r)
    \/ \E r \in Req : HelpSend(r)
    \/ \E r \in Req : LinkGetToken(r)
    \/ \E r \in Req : LinkSetChat(r)
    \/ \E r \in Req : LinkSetUser(r)
    \/ \E r \in Req : LinkHset(r)
    \/ \E r \in Req : LinkDelToken(r)
    \/ \E r \in Req : DisconnectGet(r)
    \/ \E r \in Req : DisconnectDelChat(r)
    \/ \E r \in Req : DisconnectDelUser(r)
    \/ \E r \in Req, b \in buttons : ReceiveReplyButton(r, b)
    \/ \E r \in Req, t \in {TextPM, TextGuild} : ReceiveNotify(r, "p42", t, Nil)
    \/ \E r \in Req, ms \in ClockReadings : NotifyGetChat(r, ms)
    \/ \E r \in Req : NotifySetLast(r)
    \/ \E r \in Req : NotifySetPermit(r)
    \/ \E r \in Req : NotifySend(r, TRUE)
    \/ \E r \in Req : Answer(r)
    \/ \E r \in Req : PermitGet(r)
    \/ \E r \in Req : SessionSet(r)
    \/ \E r \in Req : SendGetUser(r)
    \/ \E r \in Req : QueuePush(r)
    \/ \E r \in Req : QueueExpire(r)
    \/ \E r \in Req : ReplyGet(r)
    \/ \E r \in Req : GuildGet(r)
    \/ \E r \in Req : TextGet(r)
    \/ \E r \in Req : TextDelSession(r)
    \/ \E r \in Req : TextDelPermit(r)
    \/ \E r \in Req : StoreFails(r)
    \/ \E r \in Req, thrown \in BOOLEAN : ReceiveMalformed(r, thrown)

\* The direct-reply commands of the webhook and of the polling bot, with the
\* notifications that record the last senders.
NextCommands ==
    \/ \E r \in Req, c \in Chats,
          t \in {<<"/reply", " ", "hey">>, <<"/guild", " ", "hey">>, <<"/reply">>} :
            ReceiveMessage(r, c, t)
    \/ \E r \in Req : Respond(r)
    \/ \E r \in Req : ReplyGet(r)
    \/ \E r \in Req : GuildGet(r)
    \/ \E r \in Req : SendGetUser(r)
    \/ \E r \in Req : QueuePush(r)
    \/ \E r \in Req : QueueExpire(r)
    \/ \E r \in Req, t \in {TextPM, TextGuild}, c \in Chats \cup {Nil} :
          ReceiveNotify(r, "p42", t, c)
    \/ \E r \in Req, ms \in ClockReadings : NotifyGetChat(r, ms)
    \/ \E r \in Req : NotifySetLast(r)
    \/ \E r \in Req : NotifySetPermit(r)
    \/ \E r \in Req : NotifySend(r, TRUE)
    \/ \E r \in Req : Answer(r)
    \/ \E r \in Req, c \in Chats, t \in BotTexts : BotReceive(r, c, t)
    \/ \E r \in Req : BotGet(r)
    \/ \E r \in Req : BotPush(r)
    \/ \E r \in Req : BotExpire(r)
    \/ \E r \in Req : BotDone(r)
    \/ (\A r \in Req : req[r].pc = "idle") /\ Tick(TickSeconds)

\* Linking through the webhook and through the polling bot's /start.
NextStart ==
    \/ NextLink
    \/ \E r \in Req, c \in Chats, t \in {<<"/start">>, <<"/start", " ", "XYZ789">>} :
          BotStartReceive(r, c, t)
    \/ \E r \in Req : BotStartGet(r)
    \/ \E r \in Req : BotDone(r)

\* The reply state machine of chat c1 under the clock: notifications arrive
\* until the last clock step, buttons and free text at any time; the clock
\* steps only between requests.
Passes == (\A r \in Req : req[r].pc = "idle") /\ Tick(TickSeconds)
NextExpiry ==
    \/ \E r \in Req : ReceiveMessage(r, "c1", <<"hello back">>)
    \/ \E r \in Req, b \in buttons : ReceiveReplyButton(r, b)
    \/ \E r \in Req, t \in {TextPM, TextGuild} :
          elapsed < MaxClock /\ ReceiveNotify(r, "p42", t, "c1")
    \/ \E r \in Req : Respond(r)
    \/ \E r \in Req : Answer(r)
    \/ \E r \in Req : PermitGet(r)
    \/ \E r \in Req : SessionSet(r)
    \/ \E r \in Req : SendGetUser(r)
    \/ \E r \in Req : QueuePush(r)
    \/ \E r \in Req : QueueExpire(r)
    \/ \E r \in Req : TextGet(r)
    \/ \E r \in Req : TextDelSession(r)
    \/ \E r \in Req : TextDelPermit(r)
    \/ \E r \in Req, ms \in ClockReadings : NotifyGetChat(r, ms)
    \/ \E r \in Req : NotifySetLast(r)
    \/ \E r \in Req : NotifySetPermit(r)
    \/ \E r \in Req : NotifySend(r, TRUE)
    \/ Passes

Next == NextReply \/ NextNotify \/ NextWebhook \/ NextCommands \/ NextStart \/ NextExpiry

InitRace == Init /\ lanes = MaxReq
InitSeq == Init /\ lanes = 1
\* The token XYZ789 holds either kind of bare value.
InitBare == InitLinks({TokenBare("p42"), TokenBare("777")}) /\ InitRest /\ lanes = 1
InitRaceLinked == Init /\ lanes = MaxReq /\ telegram_chat["c1"] = "p42"

\* Every handler over one store.
Spec == InitRace /\ [][Next]_vars
\* The linking handlers alone (no notification, no reply in the run), interleaved.
SpecLink == InitRace /\ [][NextLink]_vars
\* The linking handlers alone, one at a time.
SpecLinkSeq == InitSeq /\ [][NextLink]_vars
\* The reply handlers alone (the links stay as Init left them), one at a time.
SpecReply == InitSeq /\ [][NextReply]_vars
\* Every webhook event and the stateful dispatcher, one handler at a time.
SpecWebhook == InitSeq /\ [][NextWebhook]_vars
\* The same, with every awaited call of a running handler settling in the end
\* (the event loop resumes the handler when its promise resolves or rejects).
Settles(r) == Running(r) /\ NextWebhook /\ req'[r] # req[r]
SpecWebhookFair == SpecWebhook /\ \A r \in Req : WF_vars(Settles(r))
\* Linking through the webhook and the polling bot, one handler at a time.
SpecStart == InitSeq /\ [][NextStart]_vars
\* The reply state machine under the clock, one handler at a time: a running
\* handler's awaited call settles in the end, and time keeps passing (the store
\* expires keys on its own, whatever the handlers do).
SpecExpirySafe == InitSeq /\ [][NextExpiry]_vars
Proceeds(r) == Running(r) /\ NextExpiry /\ req'[r] # req[r]
SpecExpiry == SpecExpirySafe /\ (\A r \in Req : WF_vars(Proceeds(r))) /\ SF_vars(Passes)
\* The same over a store whose bare token value may be numeric.
SpecBare == InitBare /\ [][NextStart]_vars
\* The direct-reply commands, one handler at a time.
SpecCommands == InitSeq /\ [][NextCommands]_vars
\* The notification dispatchers alone, interleaved.
SpecNotify == InitRace /\ [][NextNotify]_vars
\* The reply handlers of one linked chat, interleaved.
SpecReplyRace == InitRaceLinked /\ [][NextReplyRace]_vars

\* ---------------------------------------------------------------- properties
\* Handler instance r takes the step.
Stepped(r) == req'[r] # req[r]
\* The last message handler instance r sent.
LastOut(r) == IF req[r].out = <<>> THEN Nil ELSE req[r].out[Len(req[r].out)].text
Quiescent == \A r \in Req : req[r].pc \in {"idle", "respond", "answer"}
\* The delivered reply buttons of chat c in the message with id m.
ButtonsOf(c, m) == {b \in buttons : b.chat = c /\ b.msgId = m}
\* The context ids whose activation made the session chat c has now.
ActivatedCtx(c) ==
    IF active_reply[c] = NoSession THEN {}
    ELSE {b.ctx : b \in ButtonsOf(c, active_reply[c].originalMsgId)}

\* C1: of the linkAccount runs that redeem one token, interleaved in any order,
\* at most one ends in a successful link.
C1_OneRedeemerWins ==
    \A r1, r2 \in Req :
        (/\ r1 # r2
         /\ req[r1].pc = "respond" /\ LastOut(r1) = "linked"
         /\ req[r2].pc = "respond" /\ LastOut(r2) = "linked")
        => req[r1].linkId # req[r2].linkId

\* C2: after completed link and disconnect operations, telegram_chat:<c> = u
\* exactly when telegram_user:<u> = c.
C2_LinkBidirectional ==
    Quiescent =>
        \A c \in Chats, u \in Users : telegram_chat[c] = u <=> telegram_user[u] = c

\* C3: a button press for a context id whose activation already made the chat's
\* session does not get past the permit lookup (it ends as Reply Window Expired).
C3_PermitUsedOnce ==
    \A r \in Req :
        req[r].pc = "session_set" => req[r].ctx \notin ActivatedCtx(req[r].chat)

\* C4: two free-text handlers of one chat never both enqueue for the session
\* they read: the second to read sees no active session.
Pushed(r) == req[r].ret = "text_del" /\ req[r].pc \in {"queue_expire", "text_del"}
C4_OneConsumer ==
    \A r1, r2 \in Req :
        (r1 # r2 /\ Pushed(r1) /\ Pushed(r2) /\ req[r1].chat = req[r2].chat)
        => req[r1].session.originalMsgId # req[r2].session.originalMsgId

\* C5: each chat has one session value, and the step that activates permit P
\* from the button of message M leaves the chat's session exactly
\* {target: P.target, type: P.type, originalMsgId: M} with 300 seconds to live,
\* whatever session was there before.
C5_ActivationOverwrites ==
    /\ [](DOMAIN active_reply = Chats)
    /\ [][\A r \in Req :
            /\ (/\ req[r].pc = "permit_get" /\ Stepped(r)
                /\ reply_permit[<<req[r].chat, req[r].ctx>>] # NoPermit) =>
                   /\ req'[r].permit = reply_permit[<<req[r].chat, req[r].ctx>>]
                   /\ req'[r].pc = "session_set"
            /\ (req[r].pc = "session_set" /\ Stepped(r)) =>
                   /\ active_reply'[req[r].chat] =
                        [target |-> req[r].permit.target, type |-> req[r].permit.type,
                         originalMsgId |-> req[r].msgId, ttl |-> REPLY_WINDOW]
                   /\ \A c \in Chats \ {req[r].chat} : active_reply'[c] = active_reply[c]
         ]_vars
C5_Witness ==
    \E r \in Req :
        /\ req[r].pc = "respond" /\ LastOut(r) = "replyPrompt"
        /\ active_reply[req[r].chat].originalMsgId = req[r].msgId
        /\ \E b \in buttons : b.chat = req[r].chat /\ b.msgId # req[r].msgId

\* C6: in a linked chat, the free text T sent after the reply button of a PM
\* notification from S was pressed appends exactly the one entry {to: S,
\* content: T} to the pending list of the chat's account (for a GUILD
\* notification {content: T}, no "to"), and the session is gone afterwards.
ReplyEntry(b, t) ==
    IF b.type = "PM" THEN [to |-> b.sender, content |-> t] ELSE [content |-> t]
C6_ReplyQueued ==
    /\ [](\A r \in Req :
            (req[r].pc = "respond" /\ req[r].session # NoSession /\ req[r].userId # Nil) =>
                /\ active_reply[req[r].chat] = NoSession
                /\ req[r].userId = telegram_chat[req[r].chat]
                /\ telegram_pending[req[r].userId] # <<>>
                /\ \A b \in ButtonsOf(req[r].chat, req[r].session.originalMsgId) :
                      telegram_pending[req[r].userId][Len(telegram_pending[req[r].userId])]
                        = ReplyEntry(b, req[r].text)
                /\ ButtonsOf(req[r].chat, req[r].session.originalMsgId) # {})
    /\ [][\A r \in Req :
            (req[r].ret = "text_del" /\ Stepped(r)) =>
                IF req[r].pc = "queue_push"
                THEN \E u \in Users :
                        /\ Len(telegram_pending'[u]) = Len(telegram_pending[u]) + 1
                        /\ SubSeq(telegram_pending'[u], 1, Len(telegram_pending[u]))
                             = telegram_pending[u]
                        /\ \A v \in Users \ {u} : telegram_pending'[v] = telegram_pending[v]
                ELSE UNCHANGED telegram_pending
         ]_vars
C6_Witness ==
    \E r \in Req :
        /\ req[r].pc = "respond" /\ req[r].session.type = "PM" /\ req[r].userId = "p42"
        /\ telegram_pending["p42"] = <<[content |-> <<"hello back">>],
                                       [to |-> <<"Bob">>, content |-> <<"hello back">>]>>
        /\ active_reply[req[r].chat] = NoSession

\* C7: free text from a chat with no active reply session appends nothing, sends
\* nothing and leaves every store key as it was.
C7_TextIgnored ==
    [][\A r \in Req :
          (req[r].pc = "text_get" /\ active_reply[req[r].chat] = NoSession /\ Stepped(r)) =>
              /\ UNCHANGED store
              /\ req'[r].out = <<>> /\ req'[r].edited = 0
              /\ req'[r].pc = "respond"
      ]_vars
C7_Witness ==
    \E r \in Req :
        /\ req[r].pc = "respond" /\ req[r].kind = "message" /\ req[r].text = <<"hello back">>
        /\ req[r].session = NoSession /\ req[r].out = <<>>
        /\ ButtonsOf(req[r].chat, 1) # {} /\ elapsed > 0

\* C8: a reply_context press whose permit is absent sends Reply Window Expired
\* and leaves the chat's active reply session as it was.
C8_ExpiredPress ==
    [][\A r \in Req :
          (/\ req[r].pc = "permit_get" /\ Stepped(r)
           /\ reply_permit[<<req[r].chat, req[r].ctx>>] = NoPermit) =>
              /\ UNCHANGED store
              /\ req'[r].out = <<Msg(req[r].chat, "replyExpired", <<>>)>>
              /\ req'[r].pc = "respond"
      ]_vars
C8_Witness ==
    \E r \in Req :
        /\ req[r].pc = "respond" /\ req[r].kind = "reply_context"
        /\ LastOut(r) = "replyExpired" /\ active_reply[req[r].chat] = NoSession

\* C9: linkAccount with an absent token answers Invalid or Expired Token and
\* writes or deletes no key; a token that is gone stays gone, so a later
\* redemption of a used token fails this way.
C9_AbsentToken ==
    [][/\ \A r \in Req :
            (/\ req[r].pc = "link_get" /\ Stepped(r)
             /\ telegram_token[req[r].linkId] = NoToken) =>
                /\ UNCHANGED store
                /\ req'[r].out = <<Msg(req[r].chat, "invalidToken", <<>>)>>
                /\ req'[r].pc = "respond"
       /\ \A l \in LinkIds : telegram_token[l] = NoToken => telegram_token'[l] = NoToken
      ]_vars
C9_Witness ==
    \E r \in Req :
        /\ req[r].pc = "respond" /\ LastOut(r) = "invalidToken"
        /\ req[r].linkId = "ABC123" /\ telegram_chat["c1"] = "p42"

\* C10: when a chat redeems a present token of the structured form {account,
\* server}, then at completion telegram_chat:<chat> = account,
\* telegram_user:<account> = chat, the server is in the account's metadata and
\* the token is deleted; /status from a linked chat reports its account.
C10_StructuredLink ==
    /\ [](\A r \in Req :
            /\ (req[r].pc = "respond" /\ LastOut(r) = "linked" /\ req[r].serverId # Nil) =>
                  /\ telegram_chat[req[r].chat] = req[r].userId
                  /\ telegram_user[req[r].userId] = req[r].chat
                  /\ telegram_metadata[req[r].userId] = req[r].serverId
                  /\ telegram_token[req[r].linkId] = NoToken
            /\ (req[r].pc = "respond" /\ req[r].text = <<"/status">>) =>
                  req[r].out = IF telegram_chat[req[r].chat] # Nil
                               THEN <<Msg(req[r].chat, "status", <<telegram_chat[req[r].chat]>>)>>
                               ELSE <<Msg(req[r].chat, "notLinked", <<>>)>>)
    /\ [][\A r \in Req :
            (req[r].pc = "link_get" /\ Stepped(r) /\ telegram_token[req[r].linkId].form = "json") =>
                /\ req'[r].userId = telegram_token[req[r].linkId].userId
                /\ req'[r].serverId = telegram_token[req[r].linkId].serverId
         ]_vars
C10_Witness ==
    \E r \in Req :
        /\ req[r].pc = "respond" /\ req[r].text = <<"/status">>
        /\ LastOut(r) = "status" /\ telegram_token["ABC123"] = NoToken
        /\ telegram_token["XYZ789"] # NoToken
        /\ telegram_chat["c2"] = "p42" /\ req[r].chat = "c2"

\* C11: disconnectAccount for a chat with no link changes no store key and
\* answers "not connected" (the handler still ends with its 200); for a chat
\* linked to account U it deletes telegram_chat:<chat> and telegram_user:<U>.
C11_Disconnect ==
    /\ [](\A r \in Req :
            (req[r].pc = "respond" /\ LastOut(r) = "disconnected") =>
                /\ telegram_chat[req[r].chat] = Nil
                /\ telegram_user[req[r].userId] = Nil)
    /\ [][\A r \in Req :
            (req[r].pc = "disc_get" /\ Stepped(r)) =>
                IF telegram_chat[req[r].chat] = Nil
                THEN /\ UNCHANGED store
                     /\ req'[r].out = <<Msg(req[r].chat, "notConnected", <<>>)>>
                     /\ req'[r].pc = "respond" /\ req'[r].status = 200
                ELSE /\ UNCHANGED store
                     /\ req'[r].userId = telegram_chat[req[r].chat]
                     /\ req'[r].pc = "disc_del_chat"
         ]_vars
C11_Witness ==
    \E r \in Req :
        /\ req[r].pc = "respond" /\ LastOut(r) = "disconnected"
        /\ req[r].kind = "callback" /\ req[r].chat = "c2" /\ req[r].userId = "p42"
        /\ telegram_token["ABC123"] = NoToken

\* C12: two notifications to one chat never share a context id: the delivered
\* reply buttons of a chat carry distinct context ids, and the step that stores
\* a permit finds no live permit under its key.
C12_FreshContextId ==
    /\ [](\A b1, b2 \in buttons :
            (b1.chat = b2.chat /\ b1.ctx = b2.ctx) => b1.msgId = b2.msgId)
    /\ [][\A r \in Req :
            (req[r].pc = "notify_permit" /\ Stepped(r)) =>
                reply_permit[<<req[r].chat, req[r].ctx>>] = NoPermit
         ]_vars

Dispatchers == {"notify", "proxy"}

\* C14: the dispatcher sends to the request's chat id when it has one and to the
\* chat of the account lookup otherwise; a complete request without chat id for
\* an account with no link is answered 404, with no message sent and no store
\* key written.
C14_ResolveChat ==
    /\ [](\A r \in Req :
            (/\ req[r].pc = "answer" /\ req[r].kind \in Dispatchers
             /\ req[r].userId # Nil /\ req[r].text # <<>>
             /\ req[r].chat = Nil /\ telegram_user[req[r].userId] = Nil) =>
                req[r].status = 404 /\ req[r].out = <<>>)
    /\ [][\A r \in Req :
            (req[r].pc = "notify_get" /\ Stepped(r)) =>
                /\ UNCHANGED store
                /\ IF req[r].chat # Nil THEN req'[r].chat = req[r].chat
                   ELSE IF telegram_user[req[r].userId] # Nil
                   THEN req'[r].chat = telegram_user[req[r].userId]
                   ELSE /\ req'[r].pc = "answer" /\ req'[r].status = 404
                        /\ req'[r].out = <<>>
         ]_vars

\* C15: a notification request makes one sendMessage call at most; when the
\* call fails the handler answers 500 without calling again, and it answers
\* {success: true} (200) only after the call delivered the message.
C15_SingleSend ==
    /\ [](\A r \in Req :
            req[r].kind \in Dispatchers =>
                /\ Len(req[r].out) <= 1
                /\ (req[r].pc = "answer" /\ req[r].status = 200) => Len(req[r].out) = 1
                /\ Len(req[r].out) = 1 => (req[r].pc = "answer" /\ req[r].status = 200))
    /\ [][\A r \in Req :
            (req[r].pc \in {"notify_send", "proxy_send"} /\ Stepped(r)) =>
                /\ req'[r].pc = "answer"
                /\ UNCHANGED store
                /\ \/ /\ req'[r].status = 200
                      /\ req'[r].out = <<Msg(req[r].chat, req'[r].out[1].text, <<>>)>>
                      /\ nextMsgId' = nextMsgId + 1
                   \/ /\ req'[r].status = 500
                      /\ req'[r].out = <<>>
                      /\ UNCHANGED <<nextMsgId, buttons>>
         ]_vars
C15_Witness ==
    \E r \in Req :
        /\ req[r].pc = "answer" /\ req[r].kind = "notify" /\ req[r].status = 500
        /\ req[r].out = <<>> /\ reply_permit[<<req[r].chat, req[r].ctx>>] # NoPermit
        /\ nextMsgId > 1

\* The handler instances of the webhook.
WebhookKinds == {"message", "callback", "reply_context", "other"}

\* C16: the webhook handler answers every event, and with status 200: a running
\* instance always ends, its only answer is the 200 of its try or of its catch,
\* also after a store failure or a malformed body.
C16_AlwaysOk ==
    /\ [](\A r \in Req :
            req[r].kind \in WebhookKinds =>
                /\ req[r].status \in {0, 200}
                /\ req[r].pc = "respond" => req[r].status = 200)
    /\ [][\A r \in Req :
            (req[r].kind \in WebhookKinds /\ req'[r].pc = "idle" /\ Stepped(r)) =>
                req[r].pc = "respond" /\ req[r].status = 200
         ]_vars
    /\ \A r \in Req : (req[r].kind \in WebhookKinds) ~> (req[r].pc = "idle")
C16_Witness ==
    \E r \in Req :
        /\ req[r].pc = "respond" /\ req[r].status = 200 /\ req[r].ret = "catch"
        /\ req[r].kind = "message" /\ req[r].session # NoSession
        /\ telegram_pending["p42"] # <<>> /\ pending_ttl["p42"] = 0

\* C17: a webhook event leads to one sendMessage call at most; besides it the
\* handler only acknowledges a callback query and edits the keyboard of the
\* message whose session a free text consumed.
C17_OneMessage ==
    \A r \in Req :
        req[r].kind \in WebhookKinds =>
            /\ Len(req[r].out) <= 1
            /\ req[r].ack => req[r].kind \in {"callback", "reply_context"}
            /\ req[r].edited # 0 =>
                  /\ req[r].kind = "message" /\ ~IsCommand(req[r].text)
                  /\ req[r].session # NoSession
                  /\ req[r].edited = req[r].session.originalMsgId
C17_Witness ==
    \E r \in Req :
        /\ req[r].pc = "respond" /\ req[r].kind = "message" /\ req[r].edited # 0
        /\ LastOut(r) = "notLinked" /\ Len(req[r].out) = 1

\* C18: when a free text has consumed the session that the button with context
\* id C started, the permit reply_permit:<chat>:C is gone from the store.
C18_PermitDeleted ==
    \A r \in Req :
        (/\ req[r].pc = "respond" /\ req[r].kind = "message"
         /\ req[r].session # NoSession /\ req[r].ret = "text_del") =>
            \A b \in ButtonsOf(req[r].chat, req[r].session.originalMsgId) :
                reply_permit[<<req[r].chat, b.ctx>>] = NoPermit

\* The chat's last-sender key of the kind of button b.
LastSenderOf(b) ==
    IF b.type = "PM" THEN last_pm_sender[b.chat] ELSE last_guild_sender[b.chat]

\* C19: a notification is delivered with a reply button exactly when its text is
\* classified PM or GUILD; when a button reply_context:C is delivered the store
\* holds reply_permit:<chat>:C with the extracted sender and the kind and the
\* chat's last-sender key of that kind, each with 300 seconds to live; a handler
\* of an unclassified text writes no store key.
C19_ButtonHasPermit ==
    [][\A r \in Req :
          (req[r].kind \in Dispatchers /\ Stepped(r)) =>
              /\ (req'[r].pc = "answer" /\ req'[r].status = 200) =>
                    /\ (buttons' # buttons) <=> (Classify(req[r].text).type # Nil)
                    /\ \A b \in buttons' \ buttons :
                          /\ b.chat = req[r].chat /\ b.ctx = req[r].ctx
                          /\ b.type = Classify(req[r].text).type
                          /\ reply_permit[<<b.chat, b.ctx>>] =
                               [target |-> Classify(req[r].text).sender,
                                type |-> b.type, ttl |-> REPLY_WINDOW]
                          /\ LastSenderOf(b).v # <<>>
                          /\ LastSenderOf(b).ttl = REPLY_WINDOW
              /\ Classify(req[r].text).type = Nil => UNCHANGED store
      ]_vars

\* The handlers of the /reply and /guild commands (webhook and polling bot).
CommandKinds == {"message", "bot"}
\* The chat's last-sender key that command text t needs.
LastSenderFor(c, t) ==
    IF StartsWith(t, "/reply") THEN last_pm_sender[c].v ELSE last_guild_sender[c].v

\* C20: /reply <message> (/guild <message>) appends to the account's pending
\* list only when the chat's last PM (guild) sender key is present and the chat
\* is linked; the /reply entry is addressed to that sender; with the key absent
\* or expired the command appends nothing and answers "no reply context".
C20_CommandNeedsContext ==
    [][\A r \in Req :
          (/\ req[r].kind \in CommandKinds /\ Stepped(r) /\ HasArg(req[r].text)
           /\ (StartsWith(req[r].text, "/reply") \/ StartsWith(req[r].text, "/guild"))) =>
              /\ (req[r].pc \in {"reply_get", "guild_get", "bot_get"}
                  /\ LastSenderFor(req[r].chat, req[r].text) = <<>>) =>
                    /\ UNCHANGED store
                    /\ req'[r].out = <<Msg(req[r].chat, "noReplyContext", <<>>)>>
                    /\ req'[r].pc \notin {"send_get", "queue_push", "bot_push"}
              /\ telegram_pending' # telegram_pending =>
                    /\ LastSenderFor(req[r].chat, req[r].text) # <<>>
                    /\ telegram_chat[req[r].chat] # Nil
                    /\ telegram_pending'[telegram_chat[req[r].chat]] =
                         Append(telegram_pending[telegram_chat[req[r].chat]],
                                IF StartsWith(req[r].text, "/reply")
                                THEN [to |-> last_pm_sender[req[r].chat].v,
                                      content |-> ArgOf(req[r].text)]
                                ELSE [content |-> ArgOf(req[r].text)])
      ]_vars

\* The handlers of the /start command (webhook and polling bot).
StartKinds == {"message", "bot"}

\* C21: /start looks at the chat's link first: from a linked chat it shows the
\* status and changes no store key (the link stays, the token it carries stays
\* unconsumed); otherwise a token leads to linkAccount, and no token to the
\* welcome message.
C21_StartOrder ==
    [][\A r \in Req :
          (/\ req'[r].kind \in StartKinds /\ StartsWith(req'[r].text, "/start")
           /\ Stepped(r)) =>
              /\ req'[r].pc = "link_get" => telegram_chat[req'[r].chat] = Nil
              /\ req[r].pc \in {"start_get", "bot_start_get"} =>
                    /\ UNCHANGED store
                    /\ IF telegram_chat[req[r].chat] # Nil
                       THEN /\ req'[r].pc \in {"respond", "bot_done"}
                            /\ req'[r].out = <<Msg(req[r].chat, "status",
                                                   <<telegram_chat[req[r].chat]>>)>>
                       ELSE IF req[r].linkId # Nil
                       THEN req'[r].pc = "link_get" /\ req'[r].out = <<>>
                       ELSE /\ req'[r].pc \in {"respond", "bot_done"}
                            /\ req'[r].out = <<Msg(req[r].chat, "welcome", <<>>)>>
      ]_vars

\* ---------------------------------------------------------------------- C22
\* A command of the webhook that lacks its argument: /link with no token,
\* /reply or /guild with no message (the regular expressions at 283, 295, 303
\* do not match).
Malformed(text) ==
    /\ IsCommand(text)
    /\ StartsWith(text, "/link") \/ StartsWith(text, "/reply") \/ StartsWith(text, "/guild")
    /\ ~HasArg(text)

\* C22: the handler of a malformed command changes no store key in any of its
\* steps and ends with status 200 having sent exactly one message to the chat.
C22_MalformedAnswered ==
    [][\A r \in Req :
          (req[r].kind = "message" /\ Malformed(req[r].text) /\ Stepped(r)) =>
              /\ UNCHANGED store
              /\ req'[r].pc = "idle" =>
                    /\ req[r].status = 200
                    /\ Len(req[r].out) = 1
                    /\ req[r].out[1].chat = req[r].chat
      ]_vars

\* ---------------------------------------------------------------------- C23
\* Every permit, last-sender key and session in the store expires within
\* REPLY_WINDOW seconds.
Expiring ==
    /\ \A k \in PermitKeys :
          reply_permit[k] # NoPermit => reply_permit[k].ttl \in 1..REPLY_WINDOW
    /\ \A c \in Chats :
          /\ active_reply[c] # NoSession => active_reply[c].ttl \in 1..REPLY_WINDOW
          /\ last_pm_sender[c].v # <<>> => last_pm_sender[c].ttl \in 1..REPLY_WINDOW
          /\ last_guild_sender[c].v # <<>> => last_guild_sender[c].ttl \in 1..REPLY_WINDOW
\* The Idle state of chat c: no permit and no session of the chat resolves.
ChatIdle(c) ==
    /\ active_reply[c] = NoSession
    /\ \A k \in PermitKeys : k[1] = c => reply_permit[k] = NoPermit

\* C23: every permit, last-sender key and session is stored with an expiry of
\* at most 300 seconds; once the notifications have stopped, every chat returns
\* to Idle for good, and free text of an Idle chat is ignored.
C23_ReturnsToIdle ==
    /\ []Expiring
    /\ \A c \in Chats : <>[]ChatIdle(c)
    /\ [][\A r \in Req :
             (req[r].pc = "text_get" /\ Stepped(r) /\ ChatIdle(req[r].chat)) =>
                 /\ req'[r].pc = "respond"
                 /\ req'[r].out = <<>>
                 /\ UNCHANGED store
         ]_vars
\* A permit was issued to chat c1 and a session activated from it, the window
\* has lapsed, and a free text of the chat has just been ignored.
C23_Witness ==
    /\ elapsed = MaxClock
    /\ \E b \in buttons : b.chat = "c1"
    /\ \E u \in Users : telegram_pending[u] # <<>>
    /\ ChatIdle("c1")
    /\ \E r \in Req : /\ req[r].kind = "message" /\ req[r].pc = "respond"
                      /\ req[r].out = <<>>

\* ---------------------------------------------------------------------- C24
\* The step writes the value of active_reply:<c> (the clock only ages it).
SessionWritten(c) ==
    /\ active_reply'[c] # NoSession
    /\ active_reply'[c] # active_reply[c]
    /\ elapsed' = elapsed
\* The step writes the value of the permit key k.
PermitWritten(k) ==
    /\ reply_permit'[k] # NoPermit
    /\ reply_permit'[k] # reply_permit[k]
    /\ elapsed' = elapsed

\* C24: a session of chat c is written only by a reply_context handler of chat
\* c, with the target and type of the permit that handler read under a key
\* reply_permit:<c>:<id>; and a permit under a key of chat c is written only by
\* a notification handler delivering to chat c.
C24_SessionFromPermit ==
    /\ [](\A r \in Req :
            req[r].pc = "session_set" =>
                req[r].kind = "reply_context" /\ req[r].permit # NoPermit)
    /\ [][/\ \A c \in Chats :
                SessionWritten(c) =>
                    \E r \in Req :
                        /\ req[r].kind = "reply_context" /\ req[r].pc = "session_set"
                        /\ req[r].chat = c /\ Stepped(r)
                        /\ active_reply'[c].target = req[r].permit.target
                        /\ active_reply'[c].type = req[r].permit.type
          /\ \A r \in Req :
                (req'[r].pc = "session_set" /\ Stepped(r)) =>
                    req'[r].permit = reply_permit[<<req[r].chat, req[r].ctx>>]
          /\ \A k \in PermitKeys :
                PermitWritten(k) =>
                    \E r \in Req :
                        /\ req[r].kind = "notify" /\ req[r].chat = k[1] /\ Stepped(r)
                        /\ reply_permit'[k].target = Classify(req[r].text).sender
                        /\ reply_permit'[k].type = Classify(req[r].text).type
       ]_vars
\* Chat c1 has a PM session activated from its permit while chat c2 holds a
\* GUILD permit of its own.
C24_Witness ==
    /\ active_reply["c1"] # NoSession /\ active_reply["c1"].type = "PM"
    /\ \E k \in PermitKeys : k[1] = "c2" /\ reply_permit[k].type = "GUILD"
    /\ active_reply["c2"] = NoSession

\* ---------------------------------------------------------------------- C25
\* C25: when linkAccount completes for a token whose stored value is the bare
\* identifier U (numeric or not), telegram_chat:<chat> = U and
\* telegram_user:<U> = chat.
C25_BareLinked ==
    [][\A r \in Req :
          (/\ req[r].pc = "link_del" /\ Stepped(r)
           /\ telegram_token[req[r].linkId].form = "bare") =>
              /\ telegram_chat'[req[r].chat] = telegram_token[req[r].linkId].userId
              /\ telegram_user'[telegram_token[req[r].linkId].userId] = req[r].chat
      ]_vars

\* ---------------------------------------------------------------------- C26
\* C26: no step of a disconnect of chat A touches the link of another chat B:
\* telegram_chat:<B> keeps its value, and every key telegram_user:<u> whose
\* value is B keeps it.
C26_DisconnectFrame ==
    [][\A r \in Req :
          (req[r].pc \in {"disc_get", "disc_del_chat", "disc_del_user"} /\ Stepped(r)) =>
              \A b \in Chats \ {req[r].chat} :
                  /\ telegram_chat'[b] = telegram_chat[b]
                  /\ \A u \in UserKeys : telegram_user[u] = b => telegram_user'[u] = b
      ]_vars

\* ---------------------------------------------------------------------- C27
\* C27: between handlers, no two distinct chats are linked to the same account.
C27_OneChatPerAccount ==
    Quiescent =>
        \A a, b \in Chats :
            (a # b /\ telegram_chat[a] # Nil) => telegram_chat[a] # telegram_chat[b]

====
